---- MODULE Spec2Model ----
(***************************************************************************)
(* Prototype, Singleton and Proxy demos of the design-patterns repository. *)
(* The JavaScript object model the three demos rely on (own properties,    *)
(* prototype chain, frozen objects, proxy traps) is modelled explicitly,   *)
(* and every statement of the demos is an action over it.                  *)
(***************************************************************************)
EXTENDS Integers, Sequences, FiniteSets, TLC

VARIABLES
  heap,             \* the objects: prototype, own properties, frozen or not
  nAlloc,           \* how many dogs and pets were created
  given,            \* the name each of them was constructed with
  instance,         \* `let instance` of the Singleton demo
  counter,          \* `let counter = 0` of the Singleton demo
  singletonCounter, \* `const singletonCounter`
  attempts,         \* how many times new Counter() was evaluated
  assigned,         \* the properties assigned on singletonCounter so far
  nInc,             \* how many increment() calls were made
  nDec,             \* how many decrement() calls were made
  last              \* what the last statement did, returned, logged, threw

vars == <<heap, nAlloc, given, instance, counter, singletonCounter,
          attempts, assigned, nInc, nDec, last>>

(* ------------------------------ bounds --------------------------------- *)
MaxObjects == 3
MaxAttempts == 3
MaxCalls == 4

(* --------------------------- JavaScript values -------------------------- *)
\* A value is a record: k its kind, n a numeric payload (the number, or an
\* array's length), s a string payload (the string, or a function's name).
V(k, n, s) == [k |-> k, n |-> n, s |-> s]
Num(n) == V("number", n, "")
NaN == V("nan", 0, "")
Str(s) == V("string", 0, s)
Null == V("null", 0, "")
Undefined == V("undefined", 0, "")
Arr(n) == V("array", n, "")
Obj == V("object", 0, "")
Sym == V("symbol", 0, "")
Fn(s) == V("function", 0, s)
\* Marker of a property an object does not have (not a JavaScript value).
Absent == V("absent", 0, "")

TypeOf(v) ==
  CASE v.k \in {"number", "nan"} -> "number"
    [] v.k = "string" -> "string"
    [] v.k = "undefined" -> "undefined"
    [] v.k = "symbol" -> "symbol"
    [] v.k = "function" -> "function"
    [] OTHER -> "object"

\* ToBoolean: 0, NaN, "", null and undefined are falsy.
Truthy(v) ==
  CASE v.k = "number" -> v.n # 0
    [] v.k = "string" -> v.s # ""
    [] v.k \in {"nan", "null", "undefined"} -> FALSE
    [] OTHER -> TRUE

\* ToString as a template literal applies it; a Symbol cannot be converted.
CanToString(v) == v.k # "symbol"
JSToString(v) ==
  CASE v.k = "number" -> ToString(v.n)
    [] v.k = "nan" -> "NaN"
    [] v.k = "string" -> v.s
    [] v.k = "null" -> "null"
    [] v.k = "undefined" -> "undefined"
    [] v.k = "array" -> IF v.n = 0 THEN "" ELSE "[array]"
    [] v.k = "function" -> v.s
    [] OTHER -> "[object Object]"

\* value.length: a TypeError on null and undefined, the length of a string
\* or an array, and undefined on everything else.
HasLengthError(v) == v.k \in {"null", "undefined"}
LengthOf(v) ==
  CASE v.k = "string" -> Num(Len(v.s))
    [] v.k = "array" -> Num(v.n)
    [] OTHER -> Undefined

\* x < n for a number n: undefined and NaN convert to NaN, and NaN < n is false.
LessThan(x, n) == x.k = "number" /\ x.n < n

(* ------------------------------ objects -------------------------------- *)
Props == {"name", "age", "nationality", "nonExistentProperty",
          "bark", "play", "fly", "toString",
          "getCounte", "increment", "decrement"}

NullRef == "null"
NoObj == "none"
ObjectProto == "Object.prototype"
DogProto == "Dog.prototype"
SuperDogProto == "SuperDog.prototype"
DogLiteral == "dog"
CounterProto == "Counter.prototype"
Person == "person"
Oid(i) == "#" \o ToString(i)
CounterOid(i) == "counter#" \o ToString(i)

NoProps == [p \in Props |-> Absent]
WithProps(f) == [p \in Props |-> IF p \in DOMAIN f THEN f[p] ELSE Absent]
NewObject(proto, own) == [proto |-> proto, own |-> WithProps(own), frozen |-> FALSE]

\* Mutant of Lookup: the object and its direct prototype only.
LookupOneLevel(h, o, p) ==
  IF o = NullRef THEN Absent
  ELSE IF h[o].own[p] # Absent THEN h[o].own[p]
  ELSE IF h[o].proto = NullRef THEN Absent
  ELSE h[h[o].proto].own[p]

\* Property lookup: own properties first, then each object of the chain.
RECURSIVE Lookup(_, _, _)
Lookup(h, o, p) ==
  IF o = NullRef THEN Absent
  ELSE IF h[o].own[p] # Absent THEN h[o].own[p]
  ELSE Lookup(h, h[o].proto, p)

\* obj[prop]: undefined when no object of the chain has the property.
Get(h, o, p) == LET v == Lookup(h, o, p) IN IF v = Absent THEN Undefined ELSE v

\* obj[prop] = value on an ordinary object: refused on a frozen one.
CanPut(h, o) == ~h[o].frozen
Put(h, o, p, v) ==
  IF CanPut(h, o) THEN [h EXCEPT ![o].own[p] = v] ELSE h

\* Mutant of Freeze: the object is left as it is.
FreezeNothing(h, o) == h

\* Object.freeze(obj)
Freeze(h, o) == [h EXCEPT ![o].frozen = TRUE]

\* Neither source file has a "use strict" directive or module syntax: the
\* top-level statements run as sloppy-mode script code.
StrictMode == FALSE

(* ------------------------------ functions ------------------------------ *)
\* The outcome of calling function f while the module-level counter is c:
\* the value returned, the line logged ("" for none) and the counter after.
Outcome(ret, out, c) == [ret |-> ret, out |-> out, counter |-> c]
\* getCounte() { return counter }
getCounte(c) == Outcome(Num(c), "", c)
\* increment() { return ++counter }
increment(c) == Outcome(Num(c + 1), "", c + 1)
\* Mutant of decrement: the value before the decrement is returned.
decrementPostfix(c) == Outcome(Num(c), "", c - 1)
\* decrement() { return --counter }
decrement(c) == Outcome(Num(c - 1), "", c - 1)

Apply(f, c) ==
  CASE f = "Dog.bark" -> Outcome(Str("Woof!"), "", c)
    [] f = "Dog.play" -> Outcome(Undefined, "Playing now!", c)
    [] f = "SuperDog.fly" -> Outcome(Undefined, "Flying!", c)
    [] f = "dog.bark" -> Outcome(Undefined, "Woof!", c)
    [] f = "Object.toString" -> Outcome(Str("[object Object]"), "", c)
    [] f = "Counter.getCounte" -> getCounte(c)
    [] f = "Counter.increment" -> increment(c)
    [] f = "Counter.decrement" -> decrement(c)
    [] f = "assigned" -> Outcome(Undefined, "decrement function called", c)

\* What the last statement did.
Did(op, obj, prop, val, ret, out, thrown) ==
  [op |-> op, obj |-> obj, prop |-> prop, val |-> val,
   ret |-> ret, out |-> out, thrown |-> thrown]

(* ----------------------------- initial state --------------------------- *)
InitHeap ==
  (ObjectProto :> NewObject(NullRef, [toString |-> Fn("Object.toString")]))
  @@ (DogProto :> NewObject(ObjectProto, [bark |-> Fn("Dog.bark")]))
  @@ (SuperDogProto :> NewObject(DogProto, [fly |-> Fn("SuperDog.fly")]))
  @@ (DogLiteral :> NewObject(ObjectProto, [bark |-> Fn("dog.bark")]))
  @@ (CounterProto :> NewObject(ObjectProto,
        [getCounte |-> Fn("Counter.getCounte"),
         increment |-> Fn("Counter.increment"),
         decrement |-> Fn("Counter.decrement")]))
  @@ (Person :> NewObject(ObjectProto,
        [name |-> Str("John Doe"), age |-> Num(42),
         nationality |-> Str("American")]))

Init ==
  /\ heap = InitHeap
  /\ nAlloc = 0
  /\ given = <<>>
  /\ instance = NoObj
  /\ counter = 0
  /\ singletonCounter = NoObj
  /\ attempts = 0
  /\ assigned = {}
  /\ nInc = 0
  /\ nDec = 0
  /\ last = Did("init", NoObj, "", Undefined, Undefined, "", "")

(* ============================ Prototype demo =========================== *)
Names == {"Daisy", "Max"}
Classes == {"Dog", "SuperDog"}
ClassProto(c) == IF c = "Dog" THEN DogProto ELSE SuperDogProto
Methods == {"bark", "play", "fly", "toString", "name", "nationality"}

\* class Dog { constructor(name) { this.name = name } }; SuperDog calls
\* super(name), which runs the same assignment on the same new object.
DogConstructor(h, this, name) == Put(h, this, "name", Str(name))
Construct(h, this, c, name) ==
  DogConstructor(h @@ (this :> NewObject(ClassProto(c), <<>>)), this, name)

\* Object.create(proto)
ObjectCreate(h, this, proto) == h @@ (this :> NewObject(proto, <<>>))

\* Mutant of AddPlayTo: the method is added to the subclass's prototype.
AddPlayToSuperDog(h) == Put(h, SuperDogProto, "play", Fn("Dog.play"))

\* Dog.prototype.play = () => console.log('Playing now!')
AddPlayTo(h) == Put(h, DogProto, "play", Fn("Dog.play"))

Instances == {Oid(i) : i \in 1..nAlloc}

NewDog(c, name) ==
  /\ nAlloc < MaxObjects
  /\ heap' = Construct(heap, Oid(nAlloc + 1), c, name)
  /\ nAlloc' = nAlloc + 1
  /\ given' = Append(given, Str(name))
  /\ last' = Did("new", Oid(nAlloc + 1), c, Str(name), Undefined, "", "")
  /\ UNCHANGED <<instance, counter, singletonCounter, attempts, assigned, nInc, nDec>>

CreatePet ==
  /\ nAlloc < MaxObjects
  /\ heap' = ObjectCreate(heap, Oid(nAlloc + 1), DogLiteral)
  /\ nAlloc' = nAlloc + 1
  /\ given' = Append(given, Absent)
  /\ last' = Did("create", Oid(nAlloc + 1), "", Undefined, Undefined, "", "")
  /\ UNCHANGED <<instance, counter, singletonCounter, attempts, assigned, nInc, nDec>>

AddPlay ==
  /\ heap[DogProto].own["play"] = Absent
  /\ heap' = AddPlayTo(heap)
  /\ last' = Did("assign", DogProto, "play", Fn("Dog.play"), Undefined, "", "")
  /\ UNCHANGED <<nAlloc, given, instance, counter, singletonCounter,
                 attempts, assigned, nInc, nDec>>

\* obj.m(): the property is looked up along the chain and called; calling
\* what is not a function is a TypeError.
CallMethod(h, o, m, c) ==
  LET f == Get(h, o, m) IN
    IF f.k = "function"
    THEN LET r == Apply(f.s, c) IN
           [ret |-> r.ret, out |-> r.out, thrown |-> "", counter |-> r.counter]
    ELSE [ret |-> Undefined, out |-> "", thrown |-> "TypeError", counter |-> c]

Invoke(o, m) ==
  /\ o \in Instances
  /\ LET r == CallMethod(heap, o, m, counter) IN
       last' = Did("invoke", o, m, Undefined, r.ret, r.out, r.thrown)
  /\ UNCHANGED <<heap, nAlloc, given, instance, counter, singletonCounter,
                 attempts, assigned, nInc, nDec>>

NextPrototype ==
  \/ \E c \in Classes, n \in Names : NewDog(c, n)
  \/ CreatePet
  \/ AddPlay
  \/ \E o \in Instances, m \in Methods : Invoke(o, m)

SpecPrototype == Init /\ [][NextPrototype]_vars

(* ============================ Singleton demo =========================== *)
\* Mutant of CounterConstructor: no test of `instance`.
CounterConstructorUnguarded(inst, this) == [thrown |-> "", instance |-> this]

\* constructor() { if (instance) throw new Error(...); instance = this }
CounterConstructor(inst, this) ==
  IF inst # NoObj
  THEN [thrown |-> "Error: You can only create one instance!", instance |-> inst]
  ELSE [thrown |-> "", instance |-> this]

\* new Counter(): `this` is a fresh object whose prototype is
\* Counter.prototype; when the constructor throws it is never reachable.
NewCounterIn(h, inst, this) ==
  LET r == CounterConstructor(inst, this) IN
    [thrown |-> r.thrown, instance |-> r.instance,
     heap |-> IF r.thrown = "" THEN h @@ (this :> NewObject(CounterProto, <<>>))
              ELSE h]

\* A direct construction attempt, new Counter().
NewCounter ==
  /\ attempts < MaxAttempts
  /\ LET this == CounterOid(attempts + 1)
         r == NewCounterIn(heap, instance, this) IN
       /\ heap' = r.heap
       /\ instance' = r.instance
       /\ last' = Did("new", this, "Counter", Undefined, Undefined, "", r.thrown)
  /\ attempts' = attempts + 1
  /\ UNCHANGED <<nAlloc, given, counter, singletonCounter, assigned, nInc, nDec>>

\* const singletonCounter = Object.freeze(new Counter()): the binding is
\* initialised only when the constructor returns.
CreateSingleton ==
  /\ attempts < MaxAttempts
  /\ singletonCounter = NoObj
  /\ LET this == CounterOid(attempts + 1)
         r == NewCounterIn(heap, instance, this) IN
       /\ heap' = IF r.thrown = "" THEN Freeze(r.heap, this) ELSE r.heap
       /\ instance' = r.instance
       /\ singletonCounter' = IF r.thrown = "" THEN this ELSE singletonCounter
       /\ last' = Did("new", this, "Counter", Undefined, Undefined, "", r.thrown)
  /\ attempts' = attempts + 1
  /\ UNCHANGED <<nAlloc, given, counter, assigned, nInc, nDec>>

\* singletonCounter.p = () => { console.log('decrement function called') }
\* A refused assignment is silent in sloppy code and a TypeError in strict code.
Assignable == {"decrement", "increment", "name"}
AssignOutcome(h, o) == IF ~CanPut(h, o) /\ StrictMode THEN "TypeError" ELSE ""
AssignMethod(p) ==
  /\ singletonCounter # NoObj
  /\ heap' = Put(heap, singletonCounter, p, Fn("assigned"))
  /\ assigned' = assigned \cup {p}
  /\ last' = Did("assign", singletonCounter, p, Fn("assigned"), Undefined, "",
                 AssignOutcome(heap, singletonCounter))
  /\ UNCHANGED <<nAlloc, given, instance, counter, singletonCounter,
                 attempts, nInc, nDec>>

\* The references to the single object: the module variable `instance` and
\* the constant `singletonCounter`.
Refs == {"instance", "singletonCounter"}
Deref(ref) == IF ref = "instance" THEN instance ELSE singletonCounter
CounterMethods == {"getCounte", "increment", "decrement"}

\* ref.m()
CallCounter(ref, m) ==
  /\ Deref(ref) # NoObj
  /\ m = "getCounte" \/ nInc + nDec < MaxCalls
  /\ LET r == CallMethod(heap, Deref(ref), m, counter) IN
       /\ counter' = r.counter
       /\ last' = Did("call", Deref(ref), m, Str(ref), r.ret, r.out, r.thrown)
  /\ nInc' = IF m = "increment" THEN nInc + 1 ELSE nInc
  /\ nDec' = IF m = "decrement" THEN nDec + 1 ELSE nDec
  /\ UNCHANGED <<heap, nAlloc, given, instance, singletonCounter, attempts,
                 assigned>>

NextSingleton ==
  \/ NewCounter
  \/ CreateSingleton
  \/ \E p \in Assignable : AssignMethod(p)
  \/ \E ref \in Refs, m \in CounterMethods : CallCounter(ref, m)

SpecSingleton == Init /\ [][NextSingleton]_vars

(* ============================== Proxy demo ============================= *)
\* The keys read, the keys written and the values written.
Keys == {"name", "age", "nationality", "nonExistentProperty"}
WriteKeys == {"name", "age", "nonExistentProperty"}
Values == {Num(0), Num(23), Str(""), Str("T"), Str("23"), Str("Thanos"),
           Null, Undefined, Sym}

TrapResult(ret, out, thrown, h) ==
  [ret |-> ret, out |-> out, thrown |-> thrown, heap |-> h]

ValueMessage(prop, v) == "The value of " \o prop \o " is " \o JSToString(v)
ChangedMessage(prop, old, v) ==
  "Changed " \o prop \o " from " \o JSToString(old) \o " to " \o JSToString(v)
MissingMessage == "This property dose't exist in objext"
AgeMessage == "Sorry you can only pass numeric value for age"
NameMessage == "Invalid name "

\* personProxy1: get logs the value and returns nothing.
PersonProxy1Get(h, obj, prop) ==
  IF ~CanToString(Get(h, obj, prop))
  THEN TrapResult(Undefined, "", "TypeError", h)
  ELSE TrapResult(Undefined, ValueMessage(prop, Get(h, obj, prop)), "", h)

\* personProxy1: set logs the change and applies it.
PersonProxy1Set(h, obj, prop, value) ==
  IF ~CanToString(Get(h, obj, prop)) \/ ~CanToString(value)
  THEN TrapResult(Undefined, "", "TypeError", h)
  ELSE TrapResult(Undefined, ChangedMessage(prop, Get(h, obj, prop), value), "",
                  Put(h, obj, prop, value))

\* personProxy2: get tests !obj[prop] and logs one of the two messages.
PersonProxy2Get(h, obj, prop) ==
  IF ~Truthy(Get(h, obj, prop))
  THEN TrapResult(Undefined, MissingMessage, "", h)
  ELSE IF ~CanToString(Get(h, obj, prop))
  THEN TrapResult(Undefined, "", "TypeError", h)
  ELSE TrapResult(Undefined, ValueMessage(prop, Get(h, obj, prop)), "", h)

\* Mutant of PersonProxy2Set: the age test is missing.
PersonProxy2SetAnyAge(h, obj, prop, value) ==
  IF prop = "name" /\ HasLengthError(value)
  THEN TrapResult(Undefined, "", "TypeError", h)
  ELSE IF prop = "name" /\ LessThan(LengthOf(value), 2)
  THEN TrapResult(Undefined, NameMessage, "", h)
  ELSE IF ~CanToString(Get(h, obj, prop)) \/ ~CanToString(value)
  THEN TrapResult(Undefined, "", "TypeError", h)
  ELSE TrapResult(Undefined, ChangedMessage(prop, Get(h, obj, prop), value) \o ".",
                  "", Put(h, obj, prop, value))

\* personProxy2: set rejects a non-number age and a name whose length is
\* below 2, and applies every other write.
PersonProxy2Set(h, obj, prop, value) ==
  IF prop = "age" /\ TypeOf(value) # "number"
  THEN TrapResult(Undefined, AgeMessage, "", h)
  ELSE IF prop = "name" /\ HasLengthError(value)
  THEN TrapResult(Undefined, "", "TypeError", h)
  ELSE IF prop = "name" /\ LessThan(LengthOf(value), 2)
  THEN TrapResult(Undefined, NameMessage, "", h)
  ELSE IF ~CanToString(Get(h, obj, prop)) \/ ~CanToString(value)
  THEN TrapResult(Undefined, "", "TypeError", h)
  ELSE TrapResult(Undefined, ChangedMessage(prop, Get(h, obj, prop), value) \o ".",
                  "", Put(h, obj, prop, value))

\* Mutant of PersonProxyHandler: the logging traps of personProxy1.
PersonProxyHandlerLogging == [get |-> "personProxy1", set |-> "personProxy1"]

\* The handler objects given to new Proxy(person, handler).
PersonProxyHandler == [get |-> "none", set |-> "none"]
PersonProxy1Handler == [get |-> "personProxy1", set |-> "personProxy1"]
PersonProxy2Handler == [get |-> "personProxy2", set |-> "personProxy2"]
Proxies == {"personProxy", "personProxy1", "personProxy2"}
HandlerOf(px) ==
  CASE px = "personProxy" -> PersonProxyHandler
    [] px = "personProxy1" -> PersonProxy1Handler
    [] px = "personProxy2" -> PersonProxy2Handler
TargetOf(px) == Person

\* proxy[prop]: the get trap when the handler has one, else the target's value.
ProxyGet(px, h, prop) ==
  CASE HandlerOf(px).get = "none" ->
         TrapResult(Get(h, TargetOf(px), prop), "", "", h)
    [] HandlerOf(px).get = "personProxy1" -> PersonProxy1Get(h, TargetOf(px), prop)
    [] HandlerOf(px).get = "personProxy2" -> PersonProxy2Get(h, TargetOf(px), prop)

\* proxy[prop] = value: the set trap when the handler has one, else the write
\* on the target. A trap that returns a falsy value (these return undefined)
\* makes the assignment a TypeError in strict code only.
FalsyTrapResult(r) ==
  IF r.thrown = "" /\ StrictMode THEN [r EXCEPT !.thrown = "TypeError"] ELSE r
ProxySet(px, h, prop, value) ==
  CASE HandlerOf(px).set = "none" ->
         TrapResult(Undefined, "", "", Put(h, TargetOf(px), prop, value))
    [] HandlerOf(px).set = "personProxy1" ->
         FalsyTrapResult(PersonProxy1Set(h, TargetOf(px), prop, value))
    [] HandlerOf(px).set = "personProxy2" ->
         FalsyTrapResult(PersonProxy2Set(h, TargetOf(px), prop, value))

ProxyRead(px, prop) ==
  /\ LET r == ProxyGet(px, heap, prop) IN
       last' = Did("get", px, prop, Undefined, r.ret, r.out, r.thrown)
  /\ UNCHANGED <<heap, nAlloc, given, instance, counter, singletonCounter,
                 attempts, assigned, nInc, nDec>>

ProxyWrite(px, prop, value) ==
  /\ LET r == ProxySet(px, heap, prop, value) IN
       /\ heap' = r.heap
       /\ last' = Did("set", px, prop, value, r.ret, r.out, r.thrown)
  /\ UNCHANGED <<nAlloc, given, instance, counter, singletonCounter,
                 attempts, assigned, nInc, nDec>>

\* Reads and writes through the validating proxy only.
NextProxy2 ==
  \/ \E p \in Keys : ProxyRead("personProxy2", p)
  \/ \E p \in WriteKeys, v \in Values : ProxyWrite("personProxy2", p, v)

SpecProxy2 == Init /\ [][NextProxy2]_vars

\* Reads and writes through the proxy whose handler is empty.
NextProxy ==
  \/ \E p \in Keys : ProxyRead("personProxy", p)
  \/ \E p \in WriteKeys, v \in Values : ProxyWrite("personProxy", p, v)

SpecProxy == Init /\ [][NextProxy]_vars

(* ============================ the whole program ======================== *)
Next ==
  \/ NextPrototype
  \/ NextSingleton
  \/ \E px \in Proxies, p \in Keys : ProxyRead(px, p)
  \/ \E px \in Proxies, p \in WriteKeys, v \in Values : ProxyWrite(px, p, v)

Spec == Init /\ [][Next]_vars

(* ================================ claims =============================== *)
ConstructorError == "Error: You can only create one instance!"

\* C1: a construction attempt made while `instance` is unset succeeds and
\* sets `instance` to the new object; every attempt made while `instance` is
\* set throws the one-instance error and leaves `instance`, `counter` and
\* the objects as they were.
C1_OnlyFirstConstructionSucceeds ==
  [][attempts' = attempts + 1 =>
       IF instance = NoObj
       THEN last'.thrown = "" /\ instance' = last'.obj /\ instance' # NoObj
       ELSE /\ last'.thrown = ConstructorError
            /\ instance' = instance
            /\ counter' = counter
            /\ heap' = heap]_vars

C1_Witness ==
  /\ last.op = "new"
  /\ last.thrown = ConstructorError
  /\ attempts >= 2
  /\ instance = CounterOid(1)
  /\ counter # 0

\* C2: an assignment to a property of the frozen singletonCounter changes
\* no object and throws nothing, and a decrement() call on the handle made
\* after `decrement` was assigned lowers `counter` by exactly 1, returns the
\* new value and logs nothing.
C2_FrozenAssignmentIsNoOp ==
  [][/\ last'.op = "assign" => heap' = heap /\ last'.thrown = ""
     /\ (/\ nDec' = nDec + 1
         /\ last'.obj = singletonCounter
         /\ "decrement" \in assigned)
        => /\ counter' = counter - 1
           /\ last'.ret = Num(counter - 1)
           /\ last'.out = ""
           /\ last'.thrown = ""]_vars

C2_Witness ==
  /\ last.op = "call"
  /\ last.prop = "decrement"
  /\ last.val = Str("singletonCounter")
  /\ "decrement" \in assigned
  /\ last.ret = Num(counter)
  /\ heap[singletonCounter].own["decrement"] = Absent

\* C3: counter is 0 before any call and always equals the number of
\* increment() calls minus the number of decrement() calls, whichever
\* reference they were made through; increment() returns the value after
\* adding 1, decrement() the value after subtracting 1, and getCounte()
\* returns the current value and leaves it unchanged.
C3_CounterIsIncrementsMinusDecrements ==
  /\ [](counter = nInc - nDec)
  /\ [][last'.op = "call" =>
          /\ last'.thrown = ""
          /\ last'.ret = Num(counter')
          /\ nInc' = nInc + 1 => counter' = counter + 1
          /\ nDec' = nDec + 1 => counter' = counter - 1
          /\ last'.prop = "getCounte" => counter' = counter]_vars

C3_Witness ==
  /\ last.op = "call"
  /\ last.prop = "getCounte"
  /\ last.val = Str("instance")
  /\ singletonCounter # NoObj
  /\ nInc >= 1
  /\ nDec >= 2
  /\ last.ret = Num(nInc - nDec)

\* C4: a write of `age` through personProxy2 with a value that is not a
\* number leaves person.age as it was and logs the numeric-value message;
\* with a number it makes person.age that number.
C4_AgeWriteValidated ==
  [][(last'.op = "set" /\ last'.obj = "personProxy2" /\ last'.prop = "age") =>
       IF TypeOf(last'.val) # "number"
       THEN /\ heap'[Person].own["age"] = heap[Person].own["age"]
            /\ last'.out = AgeMessage
       ELSE heap'[Person].own["age"] = last'.val]_vars

C4_Witness ==
  /\ last.op = "set"
  /\ last.obj = "personProxy2"
  /\ last.prop = "age"
  /\ last.val = Str("23")
  /\ last.out = AgeMessage
  /\ heap[Person].own["age"] = Num(23)

\* C5: under writes through personProxy2 only, person.age is always a
\* number and person.name always has a length of at least 2.
C5_PersonStaysValid ==
  /\ TypeOf(heap[Person].own["age"]) = "number"
  /\ LengthOf(heap[Person].own["name"]).k = "number"
  /\ LengthOf(heap[Person].own["name"]).n >= 2

\* C6: no write through personProxy2 throws.
C6_WriteNeverThrows ==
  (last.op = "set" /\ last.obj = "personProxy2") => last.thrown = ""

\* C10: a read through personProxy2 logs the missing-property message
\* exactly when the target does not have the key, and logs the value
\* message whenever it has the key, whatever the value.
C10_MissingMessageIffAbsent ==
  (last.op = "get" /\ last.obj = "personProxy2") =>
    LET v == heap[Person].own[last.prop] IN
      /\ last.out = MissingMessage <=> v = Absent
      /\ v # Absent => last.out = ValueMessage(last.prop, v)

\* C7: a read through personProxy returns the target's own value of the key
\* (undefined when it has none) and changes nothing; a write through it
\* stores the value in the target, whatever the key and the value, and
\* leaves the other keys alone; neither logs nor throws.
C7_EmptyHandlerIsTransparent ==
  [][last'.obj = "personProxy" =>
       /\ last'.thrown = "" /\ last'.out = ""
       /\ last'.op = "get" =>
            /\ heap' = heap
            /\ last'.ret = IF heap[Person].own[last'.prop] = Absent
                           THEN Undefined
                           ELSE heap[Person].own[last'.prop]
       /\ last'.op = "set" =>
            /\ heap'[Person].own[last'.prop] = last'.val
            /\ \A k \in Props \ {last'.prop} :
                 heap'[Person].own[k] = heap[Person].own[k]]_vars

C7_Witness ==
  /\ last.op = "get"
  /\ last.obj = "personProxy"
  /\ last.prop = "age"
  /\ last.ret = Str("23")
  /\ heap[Person].own["nonExistentProperty"] = Null

\* The instances made by new Dog(...) or new SuperDog(...).
IsDog(i) == given[i] # Absent
IsSuperDog(o) == heap[o].proto = SuperDogProto
\* The objects of o's delegation chain.
RECURSIVE ChainOf(_)
ChainOf(o) == IF o = NullRef THEN {} ELSE {o} \cup ChainOf(heap[o].proto)

\* C8: the assignment of Dog.prototype.play makes play() callable on every
\* instance of Dog or SuperDog that exists; from then on calling play() on
\* any such instance, made before or after the assignment, logs
\* 'Playing now!', returns undefined and does not throw; and every such
\* instance has as own `name` the name it was constructed with.
PlayWorksOn(h, o) ==
  CallMethod(h, o, "play", counter) =
    [ret |-> Undefined, out |-> "Playing now!", thrown |-> "", counter |-> counter]
C8_PlayVisibleOnAllInstances ==
  /\ [](/\ \A i \in 1..nAlloc : IsDog(i) => heap[Oid(i)].own["name"] = given[i]
        /\ heap[DogProto].own["play"] # Absent =>
             /\ \A i \in 1..nAlloc : IsDog(i) => PlayWorksOn(heap, Oid(i))
             /\ (last.op = "invoke" /\ last.prop = "play"
                 /\ \E i \in 1..nAlloc : IsDog(i) /\ last.obj = Oid(i))
                => last.out = "Playing now!" /\ last.thrown = "")
  /\ [][(last'.op = "assign" /\ last'.prop = "play") =>
          /\ heap'[DogProto].own["play"] # Absent
          /\ \A i \in 1..nAlloc : IsDog(i) => PlayWorksOn(heap', Oid(i))]_vars

C8_Witness ==
  /\ nAlloc = MaxObjects
  /\ last.op = "invoke"
  /\ last.prop = "play"
  /\ last.obj = Oid(1)
  /\ last.out = "Playing now!"
  /\ heap[Oid(1)].proto = DogProto
  /\ heap[Oid(2)].proto = SuperDogProto
  /\ heap[Oid(1)].own["name"] # heap[Oid(2)].own["name"]

\* C9: an invoked name that no object of the instance's chain defines makes
\* the invocation throw; a name is resolved to the definition of the first
\* object of the chain that has one, so that on a SuperDog instance fly()
\* runs SuperDog's method and bark(), which only Dog.prototype defines,
\* returns 'Woof!'.
C9_LookupWalksChain ==
  /\ heap[SuperDogProto].own["bark"] = Absent
  /\ heap[DogProto].own["fly"] = Absent
  /\ last.op = "invoke" =>
       LET defs == {x \in ChainOf(last.obj) : x # NullRef /\
                      (last.prop \in Props /\ heap[x].own[last.prop] # Absent)}
       IN /\ defs = {} => last.thrown = "TypeError"
          /\ (IsSuperDog(last.obj) /\ last.prop = "fly")
               => last.out = "Flying!" /\ last.thrown = ""
          /\ (IsSuperDog(last.obj) /\ last.prop = "bark")
               => last.ret = Str("Woof!") /\ last.thrown = ""
          /\ (heap[last.obj].proto = DogLiteral /\ last.prop = "bark")
               => last.out = "Woof!" /\ last.thrown = ""

C9_Witness ==
  /\ last.op = "invoke"
  /\ IsSuperDog(last.obj)
  /\ last.prop = "bark"
  /\ last.ret = Str("Woof!")
  /\ last.thrown = ""
====
